---------------------------- MODULE Spec2Model ----------------------------
(***************************************************************************)
(* A model of flashbots/tee-ware's TSS codec and TPM client:               *)
(*   crates/tss-serde         TssReader, the codec traits, Vec<T> decoding  *)
(*   crates/tss-serde-derive  the derived per-struct codec                  *)
(*   crates/tss-client        the command/response model, TssClient and     *)
(*                            TcpTransport                                  *)
(* Bytes are naturals in 0..255, byte strings are sequences (1-based, so    *)
(* the byte at Rust offset p is data[p + 1]).  Integers of the program are  *)
(* naturals, or integers for the signed types; TLC computes with 32-bit     *)
(* integers, so the sampled values stay below 2^31.                         *)
(***************************************************************************)
EXTENDS Integers, Sequences, FiniteSets, TLC

VARIABLES
    reader,      \* TssReader under test: [data, position]
    ret,         \* what the last TssReader call returned
    schema,      \* field types of the derived record under test
    original,    \* the record value handed to to_tss_bytes
    buffer,      \* the bytes to_tss_bytes produced
    decoded,     \* what from_tss_bytes returned for buffer
    codec_pc,    \* "new", "encoded", "decoded"
    heap_avail,  \* bytes the allocator can still hand out (the environment)
    target,      \* the type a from_tss_bytes call decodes into
    wire,        \* the bytes handed to that from_tss_bytes call
    outcome,     \* what that from_tss_bytes call did
    cmd,         \* the ReadPcrCommand handed to to_tss_bytes
    encoded,     \* what that to_tss_bytes call did
    call,        \* the TssClient method last called, with its arguments
    response,    \* what the stream delivered during that call
    sent,        \* the byte strings handed to Transport::send_command in it
    body_decodes,\* how often it ran TS::from_tss_bytes on a response body
    result,      \* what the call returned (or how it ended the process)
    tcp_pc,      \* where TcpTransport's code stands: [fn, at]
    platform_stream, \* the control connection: [state, io, torn]
    stream,      \* the command connection: [state, io, torn, incoming, consumed]
    command,     \* the bytes handed to TcpTransport::send_command
    response_len,\* send_command's response_len
    tpm_response,\* send_command's tpm_response
    tcp_ret      \* what default() or send_command returned

vars ==
    <<reader, ret, schema, original, buffer, decoded, codec_pc,
      heap_avail, target, wire, outcome, cmd, encoded,
      call, response, sent, body_decodes, result,
      tcp_pc, platform_stream, stream, command, response_len, tpm_response,
      tcp_ret>>
tcpVars ==
    <<tcp_pc, platform_stream, stream, command, response_len, tpm_response,
      tcp_ret>>
clientVars == <<call, response, sent, body_decodes, result>>
pcrVars == <<cmd, encoded>>
readerVars == <<reader, ret>>
codecVars == <<schema, original, buffer, decoded, codec_pc>>
decodeVars == <<heap_avail, target, wire, outcome>>

(***************************************************************************)
(* Bounds of the model.                                                     *)
(***************************************************************************)
MaxBuf == 3        \* longest buffer handed to TssReader::new in SpecReader
MaxElems == 2      \* most elements present in a sampled Sequence<T> wire form
MaxPcrList == 2    \* longest ReadPcrCommand.pcr_index in SpecPcr
HeapSmall == 1048576       \* a host with 1 MiB of heap left
HeapLarge == 1073741824    \* a host with 1 GiB of heap left

(***************************************************************************)
(* Byte-level helpers.                                                      *)
(***************************************************************************)
Byte == 0..255

RECURSIVE to_le_bytes(_, _)
\* Mutant of to_be_bytes: least significant byte first.
to_le_bytes(v, w) ==
    IF w = 0 THEN <<>> ELSE <<v % 256>> \o to_le_bytes(v \div 256, w - 1)

RECURSIVE to_be_bytes(_, _)
\* uN::to_be_bytes: the w bytes of v, most significant first.
to_be_bytes(v, w) ==
    IF w = 0 THEN <<>> ELSE Append(to_be_bytes(v \div 256, w - 1), v % 256)

RECURSIVE from_be_bytes(_)
\* uN::from_be_bytes: the natural the bytes b denote, most significant first.
from_be_bytes(b) ==
    IF b = <<>> THEN 0
    ELSE from_be_bytes(SubSeq(b, 1, Len(b) - 1)) * 256 + b[Len(b)]

\* The bitwise complement of every byte of b.
Complement(b) == [i \in 1..Len(b) |-> 255 - b[i]]

\* iN::to_be_bytes (and `as u8` for i8): two's complement, most significant
\* byte first.  For v < 0 the two's complement of v is ~(-(v + 1)).
signed_to_be_bytes(v, w) ==
    IF v >= 0 THEN to_be_bytes(v, w) ELSE Complement(to_be_bytes(-(v + 1), w))

\* Mutant of signed_from_be_bytes: the bytes read as an unsigned number.
signed_from_be_bytes_unsigned(b) == from_be_bytes(b)

\* iN::from_be_bytes (and `as i8`): the sign bit is the top bit of b[1].
signed_from_be_bytes(b) ==
    IF b[1] >= 128 THEN -from_be_bytes(Complement(b)) - 1 ELSE from_be_bytes(b)

(***************************************************************************)
(* TssReader (tss-serde/src/lib.rs).  Every operation is an operator from   *)
(* a reader r = [data, position] to a result                                *)
(*   [st |-> "Ok" | "Err", err, val, reader]                                *)
(* where reader is r after the call.                                        *)
(***************************************************************************)
new(data) == [data |-> data, position |-> 0]

Ok(val, r) == [st |-> "Ok", err |-> "", val |-> val, reader |-> r]
Err(e, r) == [st |-> "Err", err |-> e, val |-> <<>>, reader |-> r]
\* panic!(..): the call does not return.
Panic(msg, r) == [st |-> "Panic", err |-> msg, val |-> <<>>, reader |-> r]
\* alloc::alloc::handle_alloc_error: the process aborts.
Abort(msg, r) == [st |-> "Abort", err |-> msg, val |-> <<>>, reader |-> r]

\* The `?` operator: a result that is not Ok (an Err, or a panic or abort on
\* its way up) ends the function with it; an Ok result goes on to `rest`.
Try(res, rest(_)) == IF res.st # "Ok" THEN res ELSE rest(res)

\* usize::saturating_sub
saturating_sub(a, b) == IF a >= b THEN a - b ELSE 0

remaining(r) == saturating_sub(Len(r.data), r.position)

\* Mutant of has_remaining: an off-by-one bounds check.
has_remaining_strict(r, count) == remaining(r) > count

has_remaining(r, count) == remaining(r) >= count

advance(r, count) == [r EXCEPT !.position = @ + count]

read_u8(r) ==
    IF ~has_remaining(r, 1) THEN Err("InsufficientData", r)
    ELSE Ok(r.data[r.position + 1], advance(r, 1))

read_bytes(r, count) ==
    IF ~has_remaining(r, count) THEN Err("InsufficientData", r)
    ELSE Ok(SubSeq(r.data, r.position + 1, r.position + count), advance(r, count))

read_array(r, N) ==
    IF ~has_remaining(r, N) THEN Err("InsufficientData", r)
    ELSE Ok(SubSeq(r.data, r.position + 1, r.position + N), advance(r, N))

peek_remaining(r) == SubSeq(r.data, r.position + 1, Len(r.data))

\* Mutant of skip: advances without the bounds check.
skip_unchecked(r, count) == Ok(<<>>, advance(r, count))

skip(r, count) ==
    IF ~has_remaining(r, count) THEN Err("InsufficientData", r)
    ELSE Ok(<<>>, advance(r, count))


(***************************************************************************)
(* Values the parts of the state hold while a specification does not use    *)
(* them.                                                                    *)
(***************************************************************************)
NoRet == [op |-> "new", n |-> 0, st |-> "Ok", err |-> "", val |-> <<>>, before |-> 0]

ReaderIdle == reader = new(<<>>) /\ ret = NoRet

CodecIdle ==
    /\ schema = <<>>
    /\ original = <<>>
    /\ buffer = <<>>
    /\ decoded = Ok(<<>>, new(<<>>))
    /\ codec_pc = "idle"

DecodeIdle ==
    /\ heap_avail = 0
    /\ target = ""
    /\ wire = <<>>
    /\ outcome = Ok(<<>>, new(<<>>))

PcrIdle ==
    /\ cmd = [hash |-> 0, pcr_index |-> <<>>]
    /\ encoded = [st |-> "", err |-> "", val |-> <<>>]

NoCall == [op |-> "", code |-> 0, args |-> <<>>, TS |-> ""]
NoResponse == [kind |-> "", frame |-> <<>>]
NoResult == [st |-> "", err |-> "", val |-> <<>>]

ClientIdle ==
    /\ call = NoCall
    /\ response = NoResponse
    /\ sent = <<>>
    /\ body_decodes = 0
    /\ result = NoResult

TcpIdle ==
    /\ tcp_pc = [fn |-> "", at |-> 0]
    /\ platform_stream = [state |-> "unopened", io |-> <<>>, torn |-> <<>>]
    /\ stream = [state |-> "unopened", io |-> <<>>, torn |-> <<>>,
                 incoming |-> <<>>, consumed |-> 0]
    /\ command = <<>>
    /\ response_len = 0
    /\ tpm_response = <<>>
    /\ tcp_ret = NoResult

(***************************************************************************)
(* SpecReader: a TssReader over an arbitrary buffer, driven by arbitrary    *)
(* calls.  ret records the call (op, argument n), the position before it    *)
(* and what it returned.                                                    *)
(***************************************************************************)
ByteSample == {0, 1, 255}

RECURSIVE SeqsUpTo(_, _)
\* The sequences over S of length at most n.
SeqsUpTo(S, n) ==
    IF n = 0 THEN {<<>>}
    ELSE LET shorter == SeqsUpTo(S, n - 1)
         IN  shorter \cup {Append(q, x) : q \in {t \in shorter : Len(t) = n - 1}, x \in S}

Buffers == SeqsUpTo(ByteSample, MaxBuf)

\* Requested counts: everything up to one more than the longest buffer.
Counts == 0..(MaxBuf + 1)

Returned(op, n, res) ==
    [op |-> op, n |-> n, st |-> res.st, err |-> res.err, val |-> res.val,
     before |-> reader.position]

InitReader ==
    /\ \E data \in Buffers : reader = new(data)
    /\ ret = NoRet
    /\ CodecIdle
    /\ DecodeIdle
    /\ PcrIdle
    /\ ClientIdle
    /\ TcpIdle

Call(op, n, res) ==
    /\ reader' = res.reader
    /\ ret' = Returned(op, n, res)
    /\ UNCHANGED <<codecVars, decodeVars, pcrVars, clientVars, tcpVars>>

ReadU8 == Call("read_u8", 1, read_u8(reader))

ReadBytes == \E n \in Counts : Call("read_bytes", n, read_bytes(reader, n))

ReadArray == \E n \in Counts : Call("read_array", n, read_array(reader, n))

Skip == \E n \in Counts : Call("skip", n, skip(reader, n))

PeekRemaining == Call("peek_remaining", 0, Ok(peek_remaining(reader), reader))

Remaining == Call("remaining", 0, Ok(remaining(reader), reader))

HasRemaining ==
    \E n \in Counts : Call("has_remaining", n, Ok(has_remaining(reader, n), reader))

NextReader ==
    \/ ReadU8
    \/ ReadBytes
    \/ ReadArray
    \/ Skip
    \/ PeekRemaining
    \/ Remaining
    \/ HasRemaining

SpecReader == InitReader /\ [][NextReader]_vars

\* C2: in every state reached from TssReader::new(buffer) by any sequence of
\* calls, 0 <= position <= len(buffer), and no step decreases position.
CursorInvariant ==
    /\ [](0 <= reader.position /\ reader.position <= Len(reader.data))
    /\ [][reader'.position >= reader.position]_vars

\* C2 witness: the cursor has reached the end of a non-empty buffer and a
\* further read has failed there.
CursorAtEndAfterFailure ==
    /\ Len(reader.data) = MaxBuf
    /\ reader.position = Len(reader.data)
    /\ ret.op = "skip"
    /\ ret.st = "Err"

ConsumingOps == {"read_u8", "read_bytes", "read_array", "skip"}

\* C3: read_u8 (n = 1), read_array<N> (n = N), read_bytes(n) and skip(n) fail
\* with InsufficientData exactly when fewer than n bytes remain, leaving the
\* position unchanged; otherwise they return the n bytes at the position (skip
\* returns nothing) and advance the position by exactly n.
CursorReadContract ==
    ret.op \in ConsumingOps =>
        LET left == Len(reader.data) - ret.before
        IN  /\ (ret.st = "Err") <=> (left < ret.n)
            /\ ret.st = "Err" =>
                   /\ ret.err = "InsufficientData"
                   /\ reader.position = ret.before
            /\ ret.st = "Ok" =>
                   /\ reader.position = ret.before + ret.n
                   /\ ret.op = "read_u8" => ret.val = reader.data[ret.before + 1]
                   /\ ret.op \in {"read_bytes", "read_array"} =>
                          /\ Len(ret.val) = ret.n
                          /\ \A i \in 1..ret.n : ret.val[i] = reader.data[ret.before + i]

\* C3 witness: a read of two bytes from the middle of a buffer succeeded.
ReadFromTheMiddle ==
    /\ ret.op = "read_bytes"
    /\ ret.st = "Ok"
    /\ ret.n = 2
    /\ ret.before = 1
    /\ ret.val = <<1, 255>>


(***************************************************************************)
(* The derived codec (tss-serde-derive/src/lib.rs).  A record type is its   *)
(* field list `fields`, a sequence of field types in declaration order; a   *)
(* field type is what type_to_string yields for it, split into the shape    *)
(* the macro matches on and its parameter:                                  *)
(*   <<"u8">> ... <<"u64">>, <<"i8">> ... <<"i64">>,                        *)
(*   <<"[u8;", N>>, <<"[u16;", N>>, <<"[u32;", N>>,                         *)
(*   <<"struct", fields>> for a field whose type derives the codec itself.  *)
(* A record value is the sequence of its fields' values.                    *)
(***************************************************************************)
IntWidth(ty) ==
    CASE ty[1] \in {"u8", "i8"} -> 1
      [] ty[1] \in {"u16", "i16"} -> 2
      [] ty[1] \in {"u32", "i32"} -> 4
      [] ty[1] \in {"u64", "i64"} -> 8

RECURSIVE concat_be(_, _)
\* for item in &self.field { buffer.extend_from_slice(&item.to_be_bytes()) }
concat_be(items, w) ==
    IF items = <<>> THEN <<>>
    ELSE to_be_bytes(Head(items), w) \o concat_be(Tail(items), w)

RECURSIVE generate_field_serialize(_, _)
RECURSIVE generate_serialize_impl(_, _)
RECURSIVE generate_serialize_impl_reversed(_, _)

\* Mutant of generate_serialize_impl: the last declared field comes first.
generate_serialize_impl_reversed(fields, value) ==
    IF fields = <<>> THEN <<>>
    ELSE generate_serialize_impl_reversed(Tail(fields), Tail(value))
             \o generate_field_serialize(Head(fields), Head(value))

\* The bytes the generated statement appends to `buffer` for a field of type
\* ty holding v.
generate_field_serialize(ty, v) ==
    CASE ty[1] = "u8" -> <<v>>
      [] ty[1] \in {"u16", "u32", "u64"} -> to_be_bytes(v, IntWidth(ty))
      [] ty[1] = "i8" -> signed_to_be_bytes(v, 1)
      [] ty[1] \in {"i16", "i32", "i64"} -> signed_to_be_bytes(v, IntWidth(ty))
      [] ty[1] = "[u8;" -> v
      [] ty[1] = "[u16;" -> concat_be(v, 2)
      [] ty[1] = "[u32;" -> concat_be(v, 4)
      [] OTHER -> generate_serialize_impl(ty[2], v)

\* The generated to_tss_bytes: every field's bytes, in declaration order.
generate_serialize_impl(fields, value) ==
    IF fields = <<>> THEN <<>>
    ELSE generate_field_serialize(Head(fields), Head(value))
             \o generate_serialize_impl(Tail(fields), Tail(value))

\* impl TssDeserialize for u8 / u16 / u32 / u64
uint_from_tss_reader(r, w) ==
    IF w = 1 THEN read_u8(r)
    ELSE Try(read_array(r, w),
             LAMBDA bytes : Ok(from_be_bytes(bytes.val), bytes.reader))

\* The generated expression for i8 / i16 / i32 / i64.
int_from_tss_reader(r, w) ==
    IF w = 1
    THEN Try(read_u8(r),
             LAMBDA byte : Ok(signed_from_be_bytes(<<byte.val>>), byte.reader))
    ELSE Try(read_array(r, w),
             LAMBDA bytes : Ok(signed_from_be_bytes(bytes.val), bytes.reader))

RECURSIVE array_from_tss_reader(_, _, _, _)
\* for i in 0..count { array[i] = from_tss_reader(reader)? }, acc being the
\* elements read so far.
array_from_tss_reader(r, w, count, acc) ==
    IF count = 0 THEN Ok(acc, r)
    ELSE Try(uint_from_tss_reader(r, w),
             LAMBDA item : array_from_tss_reader(item.reader, w, count - 1,
                                                 Append(acc, item.val)))

RECURSIVE generate_field_deserialize(_, _)
RECURSIVE generate_deserialize_impl(_, _, _)

\* The generated expression that reads a field of type ty from the reader.
generate_field_deserialize(ty, r) ==
    CASE ty[1] \in {"u8", "u16", "u32", "u64"} -> uint_from_tss_reader(r, IntWidth(ty))
      [] ty[1] \in {"i8", "i16", "i32", "i64"} -> int_from_tss_reader(r, IntWidth(ty))
      [] ty[1] = "[u8;" -> read_array(r, ty[2])
      [] ty[1] = "[u16;" -> array_from_tss_reader(r, 2, ty[2], <<>>)
      [] ty[1] = "[u32;" -> array_from_tss_reader(r, 4, ty[2], <<>>)
      [] OTHER -> generate_deserialize_impl(ty[2], r, <<>>)

\* The generated from_tss_reader: let value_i = ...?; for every field in
\* declaration order, then Ok(Self { .. }); acc holds the fields bound so far.
generate_deserialize_impl(fields, r, acc) ==
    IF fields = <<>> THEN Ok(acc, r)
    ELSE Try(generate_field_deserialize(Head(fields), r),
             LAMBDA value_i : generate_deserialize_impl(Tail(fields), value_i.reader,
                                                        Append(acc, value_i.val)))

\* TssDeserialize::from_tss_bytes for a derived record.
from_tss_bytes(fields, bytes) == generate_deserialize_impl(fields, new(bytes), <<>>)


(***************************************************************************)
(* SpecCodec: a derived record is encoded by its generated to_tss_bytes     *)
(* and the bytes decoded by its generated from_tss_bytes.  The record types *)
(* are those of tests/integration_tests.rs and three more that between      *)
(* them use every shape the macro matches on.                               *)
(***************************************************************************)
TpmGetRandomCommand == << <<"u16">>, <<"u32">>, <<"u32">>, <<"u16">> >>
TpmResponse == << <<"u16">>, <<"u32">>, <<"u32">>, <<"[u8;", 4>> >>
TaggedProperty == << <<"u32">>, <<"u32">> >>
SignedRecord == << <<"i8">>, <<"i16">>, <<"i32">>, <<"i64">> >>
ArrayRecord == << <<"u8">>, <<"u64">>, <<"[u16;", 2>>, <<"[u32;", 2>> >>
NestedRecord == << <<"u8">>, <<"struct", TaggedProperty>>, <<"i16">> >>

Schemas ==
    {TpmGetRandomCommand, TpmResponse, SignedRecord, ArrayRecord, NestedRecord}

RECURSIVE SeqsOfLen(_, _)
\* The sequences over S of length exactly n.
SeqsOfLen(S, n) ==
    IF n = 0 THEN {<<>>}
    ELSE {Append(q, x) : q \in SeqsOfLen(S, n - 1), x \in S}

RECURSIVE ValuesOf(_)
RECURSIVE RecordsOf(_)

\* Sampled values of a field type: the extremes of the type (as far as they
\* are below 2^31) and the values the repository's tests use.
ValuesOf(ty) ==
    CASE ty[1] = "u8" -> {0, 171, 255}
      [] ty[1] = "u16" -> {0, 32, 32769}
      [] ty[1] = "u32" -> {12, 379, 2147483647}
      [] ty[1] = "u64" -> {0, 2147483647}
      [] ty[1] = "i8" -> {-128, -1, 127}
      [] ty[1] = "i16" -> {-32768, -1, 258}
      [] ty[1] = "i32" -> {-2147483647 - 1, -1, 65536}
      [] ty[1] = "i64" -> {-2147483647 - 1, -1, 2147483647}
      [] ty[1] = "[u8;" -> SeqsOfLen({18, 171}, ty[2])
      [] ty[1] = "[u16;" -> SeqsOfLen({1, 32769}, ty[2])
      [] ty[1] = "[u32;" -> SeqsOfLen({1, 2147483647}, ty[2])
      [] OTHER -> RecordsOf(ty[2])

RecordsOf(fields) ==
    IF fields = <<>> THEN {<<>>}
    ELSE {<<h>> \o t : h \in ValuesOf(Head(fields)), t \in RecordsOf(Tail(fields))}

InitCodec ==
    /\ ReaderIdle
    /\ DecodeIdle
    /\ PcrIdle
    /\ ClientIdle
    /\ TcpIdle
    /\ schema \in Schemas
    /\ original \in RecordsOf(schema)
    /\ buffer = <<>>
    /\ decoded = Ok(<<>>, new(<<>>))
    /\ codec_pc = "new"

\* let bytes = original.to_tss_bytes();
ToTssBytes ==
    /\ codec_pc = "new"
    /\ buffer' = generate_serialize_impl(schema, original)
    /\ codec_pc' = "encoded"
    /\ UNCHANGED <<schema, original, decoded, readerVars, decodeVars, pcrVars, clientVars, tcpVars>>

\* let decoded = T::from_tss_bytes(&bytes);
FromTssBytes ==
    /\ codec_pc = "encoded"
    /\ decoded' = from_tss_bytes(schema, buffer)
    /\ codec_pc' = "decoded"
    /\ UNCHANGED <<schema, original, buffer, readerVars, decodeVars, pcrVars, clientVars, tcpVars>>

NextCodec == ToTssBytes \/ FromTssBytes

SpecCodec == InitCodec /\ [][NextCodec]_vars

\* C1: for every derived record type and every value x of it, decoding the
\* bytes produced by encoding x succeeds, yields a record equal to x and
\* consumes exactly len(encode(x)) bytes.
RoundTrip ==
    codec_pc = "decoded" =>
        /\ decoded.st = "Ok"
        /\ decoded.val = original
        /\ decoded.reader.position = Len(buffer)

\* C1 witness: a record of negative signed fields of every width has gone
\* through encode and decode.
RoundTripOfSignedRecord ==
    /\ codec_pc = "decoded"
    /\ schema = SignedRecord
    /\ original = <<-1, -32768, -2147483647 - 1, -1>>
    /\ buffer = <<255, 128, 0, 128, 0, 0, 0, 255, 255, 255, 255, 255, 255, 255, 255>>


(***************************************************************************)
(* Hand-written decoders: bool and Vec<T> (tss-serde/src/lib.rs), and the   *)
(* response types of tss-client/src/primitives.rs.  An element type T is    *)
(* "u8", "u32" or "TaggedProperty".                                         *)
(***************************************************************************)
\* impl TssDeserialize for bool
bool_from_tss_reader(r) ==
    Try(read_array(r, 1),
        LAMBDA bytes : CASE bytes.val[1] = 0 -> Ok(FALSE, bytes.reader)
                         [] bytes.val[1] = 1 -> Ok(TRUE, bytes.reader)
                         [] OTHER -> Err("InvalidFormat", bytes.reader))

\* std::mem::size_of::<T>()
size_of(T) ==
    CASE T = "u8" -> 1
      [] T = "u32" -> 4
      [] T = "TaggedProperty" -> 8

\* T::from_tss_reader(reader) for an element type T.
elem_from_tss_reader(T, r) ==
    CASE T = "u8" -> uint_from_tss_reader(r, 1)
      [] T = "u32" -> uint_from_tss_reader(r, 4)
      [] T = "TaggedProperty" -> generate_deserialize_impl(TaggedProperty, r, <<>>)

\* Vec::with_capacity(length) asks the allocator for length * size_of::<T>()
\* bytes (nothing for length = 0); when the allocator cannot provide them,
\* handle_alloc_error aborts the process.  The comparison is written with a
\* division to stay within 32-bit arithmetic.
with_capacity_fails(T, length, heap) == length > heap \div size_of(T)

RECURSIVE vec_push_loop(_, _, _, _)
\* for _ in 0..length { vec.push(T::from_tss_reader(reader)?); }
vec_push_loop(T, r, length, vec) ==
    IF length = 0 THEN Ok(vec, r)
    ELSE Try(elem_from_tss_reader(T, r),
             LAMBDA item : vec_push_loop(T, item.reader, length - 1,
                                         Append(vec, item.val)))

\* impl<T> TssDeserialize for Vec<T>
vec_from_tss_reader(T, r, heap) ==
    Try(uint_from_tss_reader(r, 4),
        LAMBDA length :
            IF with_capacity_fails(T, length.val, heap)
            THEN Abort("memory allocation failed", length.reader)
            ELSE vec_push_loop(T, length.reader, length.val, <<>>))

\* impl TssDeserialize for RawResponse
RawResponse_from_tss_reader(r, heap) ==
    Try(vec_from_tss_reader("u8", r, heap),
        LAMBDA bytes : Ok([bytes |-> bytes.val], bytes.reader))

\* impl TssDeserialize for Empty
Empty_from_tss_reader(r) ==
    IF remaining(r) # 0 THEN Err("InvalidFormat", r) ELSE Ok(<<>>, r)

\* impl TssDeserialize for CapabilitiesResponse
CapabilitiesResponse_from_tss_reader(r, heap) ==
    Try(bool_from_tss_reader(r), LAMBDA more_data :
    Try(uint_from_tss_reader(more_data.reader, 4), LAMBDA capability :
        IF capability.val \notin {1, 6}
        THEN Panic("Not implemented", capability.reader)
        ELSE Try(vec_from_tss_reader(
                     IF capability.val = 1 THEN "u32" ELSE "TaggedProperty",
                     capability.reader, heap),
                 LAMBDA items :
                     Ok([capabilities |->
                             [variant |-> IF capability.val = 1 THEN "Handles"
                                          ELSE "TaggedProperties",
                              items |-> items.val],
                         more_data |-> more_data.val],
                        items.reader))))

\* TS::from_tss_bytes(bytes) for a response type TS.
response_from_tss_bytes(TS, bytes, heap) ==
    CASE TS = "Empty" -> Empty_from_tss_reader(new(bytes))
      [] TS = "RawResponse" -> RawResponse_from_tss_reader(new(bytes), heap)
      [] TS = "CapabilitiesResponse" ->
             CapabilitiesResponse_from_tss_reader(new(bytes), heap)
      [] TS = "Vec<u8>" -> vec_from_tss_reader("u8", new(bytes), heap)
      [] TS = "Vec<u32>" -> vec_from_tss_reader("u32", new(bytes), heap)
      [] TS = "Vec<TaggedProperty>" ->
             vec_from_tss_reader("TaggedProperty", new(bytes), heap)


(***************************************************************************)
(* SpecDecode: one from_tss_bytes call of a hand-written decoder on bytes   *)
(* received from the TPM, on a host with heap_avail bytes of heap left.     *)
(* The sampled wires are the well-formed encodings, the same with a wrong   *)
(* count or discriminant in front, and every truncation of those.           *)
(***************************************************************************)
ElemTypes == {"u8", "u32", "TaggedProperty"}

VecOf(T) ==
    CASE T = "u8" -> "Vec<u8>"
      [] T = "u32" -> "Vec<u32>"
      [] T = "TaggedProperty" -> "Vec<TaggedProperty>"

ElemSample(T) ==
    CASE T = "u8" -> {7, 255}
      [] T = "u32" -> {7, 256}
      [] T = "TaggedProperty" -> {<<256, 7>>, <<261, 1>>}

\* The wire form of one element, as the TPM sends it.
ElemWire(T, v) ==
    CASE T = "u8" -> <<v>>
      [] T = "u32" -> to_be_bytes(v, 4)
      [] T = "TaggedProperty" -> to_be_bytes(v[1], 4) \o to_be_bytes(v[2], 4)

RECURSIVE ElemsWire(_, _)
ElemsWire(T, elems) ==
    IF elems = <<>> THEN <<>>
    ELSE ElemWire(T, Head(elems)) \o ElemsWire(T, Tail(elems))

\* Count prefixes: every count up to one more than the elements present, and
\* a count no buffer can hold (0x7F7F7F7F).
WireCounts == (0..(MaxElems + 1)) \cup {2139062143}

\* A count followed by up to MaxElems elements.
VecWiresWhole(T) ==
    {to_be_bytes(c, 4) \o ElemsWire(T, elems) :
        c \in WireCounts, elems \in SeqsUpTo(ElemSample(T), MaxElems)}

Prefixes(S) == UNION {{SubSeq(w, 1, n) : n \in 0..Len(w)} : w \in S}

VecWires(T) == Prefixes(VecWiresWhole(T))

CapsWires ==
    Prefixes({<<more_data>> \o to_be_bytes(capability, 4) \o v :
                 more_data \in {0, 1, 2},
                 capability \in {1, 2, 6},
                 v \in VecWiresWhole("u32") \cup VecWiresWhole("TaggedProperty")})

InitDecode ==
    /\ ReaderIdle
    /\ CodecIdle
    /\ PcrIdle
    /\ ClientIdle
    /\ TcpIdle
    /\ heap_avail \in {HeapSmall, HeapLarge}
    /\ target = ""
    /\ wire = <<>>
    /\ outcome = Ok(<<>>, new(<<>>))

FromBytes(TS, bytes) ==
    /\ target = ""
    /\ target' = TS
    /\ wire' = bytes
    /\ outcome' = response_from_tss_bytes(TS, bytes, heap_avail)
    /\ UNCHANGED <<heap_avail, readerVars, codecVars, pcrVars, clientVars, tcpVars>>

DecodeVec == \E T \in ElemTypes : \E bytes \in VecWires(T) : FromBytes(VecOf(T), bytes)

DecodeCapabilitiesResponse ==
    \E bytes \in CapsWires : FromBytes("CapabilitiesResponse", bytes)

DecodeRawResponse == \E bytes \in VecWires("u8") : FromBytes("RawResponse", bytes)

DecodeEmpty == \E bytes \in VecWires("u8") : FromBytes("Empty", bytes)

NextDecode ==
    \/ DecodeVec
    \/ DecodeCapabilitiesResponse
    \/ DecodeRawResponse
    \/ DecodeEmpty

SpecDecode == InitDecode /\ [][NextDecode]_vars

VecTargets == {"Vec<u8>", "Vec<u32>", "Vec<TaggedProperty>"}

\* The element type of the Vec<T> that `target` names.
ElemOfTarget ==
    CASE target = "Vec<u8>" -> "u8"
      [] target = "Vec<u32>" -> "u32"
      [] target = "Vec<TaggedProperty>" -> "TaggedProperty"

\* The i-th element of the wire form in `wire`, read off its offsets.
WireElem(T, i) ==
    LET at(off, w) == from_be_bytes(SubSeq(wire, off + 1, off + w))
        base == 4 + (i - 1) * size_of(T)
    IN  CASE T = "u8" -> wire[base + 1]
          [] T = "u32" -> at(base, 4)
          [] T = "TaggedProperty" -> <<at(base, 4), at(base + 4, 4)>>

\* C4: decoding a Sequence<T> reads a u32 big-endian count c; if the
\* remaining bytes hold c complete elements it returns exactly those c
\* elements in wire order, and whenever the count exceeds the elements
\* available it fails with InsufficientData (it does not abort, and returns
\* no partial sequence).
SequenceDecodeLaw ==
    (target \in VecTargets /\ Len(wire) >= 4) =>
        LET T == ElemOfTarget
            c == from_be_bytes(SubSeq(wire, 1, 4))
            available == (Len(wire) - 4) \div size_of(T)
        IN  IF c <= available
            THEN /\ outcome.st = "Ok"
                 /\ Len(outcome.val) = c
                 /\ \A i \in 1..c : outcome.val[i] = WireElem(T, i)
            ELSE /\ outcome.st = "Err"
                 /\ outcome.err = "InsufficientData"

\* C6: after moreData and the u32 discriminant, discriminant 1 yields Handles,
\* discriminant 6 yields TaggedProperties, and every other discriminant makes
\* decoding return an error: it neither succeeds nor panics nor aborts.
CapabilityLaw ==
    (target = "CapabilitiesResponse" /\ Len(wire) >= 5 /\ wire[1] \in {0, 1}) =>
        LET capability == from_be_bytes(SubSeq(wire, 2, 5))
        IN  /\ (capability = 1 /\ outcome.st = "Ok") =>
                   outcome.val.capabilities.variant = "Handles"
            /\ (capability = 6 /\ outcome.st = "Ok") =>
                   outcome.val.capabilities.variant = "TaggedProperties"
            /\ capability \notin {1, 6} => outcome.st = "Err"


(***************************************************************************)
(* ReadPcrCommand (tss-client/src/primitives.rs).  to_tss_bytes returns     *)
(* Vec<u8>, not a Result: a call either returns bytes or panics.            *)
(***************************************************************************)
SIZE_OF_PCR_SELECT == 3

Bytes(b) == [st |-> "Ok", err |-> "", val |-> b]
Panicked(msg) == [st |-> "Panic", err |-> msg, val |-> <<>>]

RECURSIVE shl(_, _)
\* a << n, for operands whose result fits the type.
shl(a, n) == IF n = 0 THEN a ELSE shl(2 * a, n - 1)

\* Mutant of bit_or: the bit is added, not or-ed.
bit_add(a, b) == a + b

RECURSIVE bit_or(_, _)
\* a | b
bit_or(a, b) ==
    IF a = 0 THEN b
    ELSE IF b = 0 THEN a
    ELSE (IF a % 2 = 1 \/ b % 2 = 1 THEN 1 ELSE 0) + 2 * bit_or(a \div 2, b \div 2)

RECURSIVE pcr_mask_loop(_, _)
\* for &pcr_index in &self.pcr_index { .. }, from the mask built so far.
pcr_mask_loop(indices, pcr_mask) ==
    IF indices = <<>> THEN Bytes(pcr_mask)
    ELSE LET pcr_index == Head(indices)
             byte_num == pcr_index \div 8
             bit_pos == pcr_index % 8
         IN  IF pcr_index >= 8 * SIZE_OF_PCR_SELECT
             THEN Panicked("PCR index is out of range")
             ELSE pcr_mask_loop(Tail(indices),
                      [pcr_mask EXCEPT ![byte_num + 1] = bit_or(@, shl(1, bit_pos))])

\* impl TssSerialize for ReadPcrCommand
ReadPcrCommand_to_tss_bytes(c) ==
    IF c.pcr_index = <<>> THEN Bytes(to_be_bytes(0, 4))
    ELSE Try(pcr_mask_loop(c.pcr_index, [i \in 1..SIZE_OF_PCR_SELECT |-> 0]),
             LAMBDA pcr_mask :
                 Bytes(to_be_bytes(c.hash, 2) \o <<SIZE_OF_PCR_SELECT>> \o pcr_mask.val))

(***************************************************************************)
(* SpecPcr: one to_tss_bytes call on a ReadPcrCommand whose index list      *)
(* holds valid indices (0..23), the first invalid one and a large one, in   *)
(* any order and with duplicates.                                           *)
(***************************************************************************)
HashSample == {11, 4660}

PcrIndexSample == (0..23) \cup {24, 2147483647}

InitPcr ==
    /\ ReaderIdle
    /\ CodecIdle
    /\ DecodeIdle
    /\ PcrIdle
    /\ ClientIdle
    /\ TcpIdle

EncodeReadPcr ==
    /\ encoded.st = ""
    /\ \E hash \in HashSample, pcr_index \in SeqsUpTo(PcrIndexSample, MaxPcrList) :
           /\ cmd' = [hash |-> hash, pcr_index |-> pcr_index]
           /\ encoded' = ReadPcrCommand_to_tss_bytes(cmd')
    /\ UNCHANGED <<readerVars, codecVars, decodeVars, clientVars, tcpVars>>

NextPcr == EncodeReadPcr

SpecPcr == InitPcr /\ [][NextPcr]_vars

InRange(pcr_index) == \A k \in 1..Len(pcr_index) : pcr_index[k] \in 0..23

\* C5: for a non-empty index list of values in [0,24), in any order and with
\* or without duplicates, the encoding is hash (2 bytes big-endian), the byte
\* 3, then a 3-byte mask in which bit (i mod 8) of byte (i div 8) is set iff
\* i is in the list; for the empty list it is the four bytes 00 00 00 00.
PcrMaskLaw ==
    (encoded.st # "" /\ InRange(cmd.pcr_index)) =>
        IF cmd.pcr_index = <<>>
        THEN encoded.st = "Ok" /\ encoded.val = <<0, 0, 0, 0>>
        ELSE /\ encoded.st = "Ok"
             /\ Len(encoded.val) = 6
             /\ encoded.val[1] = cmd.hash \div 256
             /\ encoded.val[2] = cmd.hash % 256
             /\ encoded.val[3] = 3
             /\ \A i \in 0..23 :
                    LET byte == encoded.val[4 + (i \div 8)]
                    IN  /\ byte \in 0..255
                        /\ ((byte \div shl(1, i % 8)) % 2 = 1) <=>
                               (\E k \in 1..Len(cmd.pcr_index) : cmd.pcr_index[k] = i)

\* C5 witness: a list with a duplicate, out of order, has been encoded.
PcrDuplicateEncoded ==
    /\ cmd.pcr_index = <<23, 23>>
    /\ cmd.hash = 11
    /\ encoded.val = <<0, 11, 3, 0, 0, 128>>


(***************************************************************************)
(* The command model (tss-client/src/primitives.rs) and TssClient           *)
(* (tss-client/src/client.rs) over TcpTransport                             *)
(* (tss-client/src/tcp_transport.rs).                                       *)
(***************************************************************************)
STARTUP == 324           \* 0x00000144
GET_CAPABILITY == 378    \* 0x0000017A
READ_PCR == 382          \* 0x0000017E
NO_SESSIONS == 32769     \* 0x8001
TPM_PROPERTIES == 6
HANDLES_TRANSIENT == 1
FAMILY_INDICATOR == 256  \* 0x00000100
MANUFACTURER == 261      \* 0x00000105
startup_type_CLEAR == 0
startup_type_STATE == 1

\* #[derive(TssSerialize)] struct StartupCommand { startup_type: u16 }
StartupCommand == << <<"u16">> >>
\* #[derive(TssSerialize)] struct CommandHeader { tag, length, command_code }
CommandHeader == << <<"u16">>, <<"u32">>, <<"u32">> >>
\* #[derive(TssSerialize)] struct GetCapabilityCommand
\*     { capability, property, property_count }
GetCapabilityCommand == << <<"u32">>, <<"u32">>, <<"u32">> >>
\* #[derive(TssDeserialize)] struct ResponseHeader { tag, size, response_code }
ResponseHeader == << <<"u16">>, <<"u32">>, <<"u32">> >>

\* What the caller of a decoder gets: the result without the reader.
Returns(res) == [st |-> res.st, err |-> res.err, val |-> res.val]

\* Mutant of parse_response: the response code is not looked at.
parse_response_ignoring_code(response_bytes) ==
    Try(Returns(from_tss_bytes(ResponseHeader, response_bytes)),
        LAMBDA header :
            Returns(Ok([header |-> header.val,
                        body |-> SubSeq(response_bytes, 11, Len(response_bytes))],
                       new(<<>>))))

\* TcpTransport::send_command once tpm_response has been read: decode the
\* header, fail on a non-zero response code, else return (header, body).
parse_response(response_bytes) ==
    Try(Returns(from_tss_bytes(ResponseHeader, response_bytes)),
        LAMBDA header :
            IF header.val[3] # 0
            THEN [st |-> "Err", err |-> "Command failed", val |-> <<>>]
            ELSE Returns(Ok([header |-> header.val,
                             body |-> SubSeq(response_bytes, 11, Len(response_bytes))],
                            new(<<>>))))

\* Transport::send_command as TssClient sees it: resp is what the stream does
\* during the call, an I/O error or the frame it delivers.
send_command(input, resp) ==
    IF resp.kind = "io_error" THEN [st |-> "Err", err |-> "io", val |-> <<>>]
    ELSE parse_response(resp.frame)

\* Mutant of command_length: the header is not counted.
command_length_of_body(body) == Len(body)

\* length: 10 + body.len() as u32
command_length(body) == 10 + Len(body)

\* TssClient::run_command::<TS>(command_code, command_body), command_body
\* given by what its to_tss_bytes does.  Yields what was handed to the
\* transport, how often a body was decoded and the call's result.
\* let header = CommandHeader { .. }; [header.to_tss_bytes(), body].concat()
command_input(command_code, body) ==
    generate_serialize_impl(CommandHeader,
                            <<NO_SESSIONS, command_length(body), command_code>>)
        \o body

\* Mutant of decode_reply: a failed round trip is sent a second time.
decode_reply_resending(TS, input, reply, heap) ==
    IF reply.st # "Ok"
    THEN [sent |-> <<input, input>>, body_decodes |-> 0, result |-> reply]
    ELSE [sent |-> <<input>>,
          body_decodes |-> 1,
          result |-> Returns(response_from_tss_bytes(TS, reply.val.body, heap))]

\* let (_header, body_response) = reply?; TS::from_tss_bytes(&body_response)
decode_reply(TS, input, reply, heap) ==
    IF reply.st # "Ok"
    THEN [sent |-> <<input>>, body_decodes |-> 0, result |-> reply]
    ELSE [sent |-> <<input>>,
          body_decodes |-> 1,
          result |-> Returns(response_from_tss_bytes(TS, reply.val.body, heap))]

\* self.transport.send_command(&input) and what follows it.
round_trip(TS, input, resp, heap) ==
    decode_reply(TS, input, send_command(input, resp), heap)

\* TssClient::run_command::<TS>(command_code, command_body), command_body
\* given by what its to_tss_bytes does.  Yields what was handed to the
\* transport, how often a body was decoded and the call's result.
run_command(TS, command_code, command_body, resp, heap) ==
    IF command_body.st # "Ok"
    THEN [sent |-> <<>>, body_decodes |-> 0, result |-> command_body]
    ELSE round_trip(TS, command_input(command_code, command_body.val), resp, heap)

(***************************************************************************)
(* Spec: a TssClient whose methods are called one after another, each call  *)
(* a whole run_command; the client keeps nothing of a call once the caller  *)
(* has taken its result.  The stream delivers an I/O error or a frame: a     *)
(* response header (success or 0x922, size field right or too large) with   *)
(* a body, or fewer than 10 bytes.                                          *)
(***************************************************************************)
CannedCapabilities ==
    <<0>> \o to_be_bytes(6, 4) \o to_be_bytes(1, 4)
          \o to_be_bytes(256, 4) \o to_be_bytes(7, 4)

ResponseBodies ==
    { <<>>,
      CannedCapabilities,
      SubSeq(CannedCapabilities, 1, 12),
      <<1>> \o to_be_bytes(1, 4) \o to_be_bytes(1, 4) \o to_be_bytes(7, 4),
      <<0>> \o to_be_bytes(2, 4) \o to_be_bytes(0, 4),
      <<0>> \o to_be_bytes(6, 4) \o <<127, 127, 127, 127>>,
      to_be_bytes(2, 4) \o <<170, 187>>,
      to_be_bytes(2, 4) \o <<170, 187, 204>>,
      <<170, 187>> }

ResponseCodes == {0, 2338}    \* success, 0x00000922

WholeFrames ==
    {to_be_bytes(NO_SESSIONS, 2) \o to_be_bytes(10 + Len(body) + extra, 4)
         \o to_be_bytes(code, 4) \o body :
         body \in ResponseBodies, extra \in {0, 4}, code \in ResponseCodes}

ShortFrames ==
    {SubSeq(to_be_bytes(NO_SESSIONS, 2) \o to_be_bytes(10, 4) \o to_be_bytes(0, 4), 1, n) :
         n \in 1..9}

StreamBehaviours ==
    {[kind |-> "io_error", frame |-> <<>>]}
        \cup {[kind |-> "frame", frame |-> f] : f \in WholeFrames \cup ShortFrames}

ClientPcrSample == {0, 23, 24}

Init ==
    /\ ReaderIdle
    /\ CodecIdle
    /\ PcrIdle
    /\ heap_avail \in {HeapSmall, HeapLarge}
    /\ target = ""
    /\ wire = <<>>
    /\ outcome = Ok(<<>>, new(<<>>))
    /\ ClientIdle
    /\ TcpIdle

\* The process is still running: no call has panicked or aborted.
Running == result.st \notin {"Panic", "Abort"}

\* The call ends as run_command did.
Completes(done) ==
    /\ sent' = done.sent
    /\ body_decodes' = done.body_decodes
    /\ result' = done.result

Invoke(op, TS, command_code, args, command_body) ==
    /\ Running
    /\ call = NoCall
    /\ \E resp \in StreamBehaviours :
           /\ call' = [op |-> op, code |-> command_code, args |-> args, TS |-> TS]
           /\ response' = resp
           /\ Completes(run_command(TS, command_code, command_body, resp, heap_avail))
    /\ UNCHANGED <<readerVars, codecVars, decodeVars, pcrVars, tcpVars>>

\* TssClient::startup
Startup ==
    \E startup_type \in {startup_type_CLEAR, startup_type_STATE} :
        Invoke("startup", "Empty", STARTUP, <<startup_type>>,
               Bytes(generate_serialize_impl(StartupCommand, <<startup_type>>)))

\* TssClient::get_capabilities
GetCapabilities ==
    \E capability \in {TPM_PROPERTIES, HANDLES_TRANSIENT},
       property \in {FAMILY_INDICATOR, MANUFACTURER},
       property_count \in {1, 2} :
        Invoke("get_capabilities", "CapabilitiesResponse", GET_CAPABILITY,
               <<capability, property, property_count>>,
               Bytes(generate_serialize_impl(GetCapabilityCommand,
                                             <<capability, property, property_count>>)))

\* TssClient::read_pcr
ReadPcr ==
    \E pcr_index \in SeqsUpTo(ClientPcrSample, MaxPcrList) :
        LET input == [hash |-> 11, pcr_index |-> pcr_index]
        IN  Invoke("read_pcr", "RawResponse", READ_PCR, <<input>>,
                   ReadPcrCommand_to_tss_bytes(input))

\* The caller takes the result of a call that returned; TssClient holds
\* only its transport, so nothing of the call is left.
TakeResult ==
    /\ Running
    /\ call # NoCall
    /\ call' = NoCall
    /\ response' = NoResponse
    /\ sent' = <<>>
    /\ body_decodes' = 0
    /\ result' = NoResult
    /\ UNCHANGED <<readerVars, codecVars, decodeVars, pcrVars, tcpVars>>

Next == Startup \/ GetCapabilities \/ ReadPcr \/ TakeResult

Spec == Init /\ [][Next]_vars

\* The index list of the read_pcr call holds an index outside 0..23.
PcrIndexOutOfRange ==
    /\ call.op = "read_pcr"
    /\ \E k \in 1..Len(call.args[1].pcr_index) : call.args[1].pcr_index[k] >= 24

\* C7: encoding a ReadPcrCommand whose index list contains an index >= 24
\* fails with a range error returned to the caller: read_pcr returns an error,
\* nothing is sent to the transport and the process is not ended.
PcrRangeError ==
    PcrIndexOutOfRange => (result.st = "Err" /\ sent = <<>>)

\* The body a call's command must encode to, written out per command: the
\* u16 startup type, the three u32 of GetCapability, the PCR selection.
ExpectedBody(body) ==
    CASE call.op = "startup" ->
             body = <<call.args[1] \div 256, call.args[1] % 256>>
      [] call.op = "get_capabilities" ->
             /\ Len(body) = 12
             /\ \A i \in 1..3 :
                    from_be_bytes(SubSeq(body, 4 * i - 3, 4 * i)) = call.args[i]
      [] call.op = "read_pcr" ->
             body = ReadPcrCommand_to_tss_bytes(call.args[1]).val

\* C8: what run_command hands to send_command is header ++ encode(body),
\* the header being exactly 10 bytes: tag 0x8001, length = 10 +
\* len(encode(body)) = the total length of what is sent, and commandCode =
\* code, each big-endian.
CommandFraming ==
    /\ (call.op # "" /\ ~PcrIndexOutOfRange) => sent # <<>>
    /\ sent # <<>> =>
           LET input == sent[1]
               body == SubSeq(input, 11, Len(input))
           IN  /\ Len(input) >= 10
               /\ input[1] = 128 /\ input[2] = 1
               /\ from_be_bytes(SubSeq(input, 3, 6)) = Len(input)
               /\ from_be_bytes(SubSeq(input, 3, 6)) = 10 + Len(body)
               /\ from_be_bytes(SubSeq(input, 7, 10)) = call.code
               /\ ExpectedBody(body)

\* C8 witness: read_pcr of PCRs 23 and 0 has handed its 16 bytes to the
\* transport.
ReadPcrCommandSent ==
    /\ call.op = "read_pcr"
    /\ call.args[1].pcr_index = <<23, 0>>
    /\ sent = << <<128, 1, 0, 0, 0, 16, 0, 0, 1, 126, 0, 11, 3, 1, 0, 128>> >>

\* get_capabilities(TPM_PROPERTIES, 0x100, 1) has been called.
GetCapabilityScenario ==
    /\ call.op = "get_capabilities"
    /\ call.args = <<TPM_PROPERTIES, FAMILY_INDICATOR, 1>>

\* C9 as stated: get_capabilities(TPM_PROPERTIES, 0x100, 1) hands the
\* transport 80 01 00 00 00 10 00 00 01 7A 00 00 00 06 00 00 01 00 00 00 00 01.
GetCapabilityBytesAsStated ==
    GetCapabilityScenario =>
        sent = << <<128, 1, 0, 0, 0, 16, 0, 0, 1, 122,
                    0, 0, 0, 6, 0, 0, 1, 0, 0, 0, 0, 1>> >>

\* C9 as amended: get_capabilities(TPM_PROPERTIES, 0x100, 1) hands the
\* transport 80 01 00 00 00 16 00 00 01 7A 00 00 00 06 00 00 01 00 00 00 00 01:
\* the length field is 0x16 = 22, the 10 header bytes plus the 12 body bytes.
GetCapabilityBytes ==
    GetCapabilityScenario =>
        sent = << <<128, 1, 0, 0, 0, 22, 0, 0, 1, 122,
                    0, 0, 0, 6, 0, 0, 1, 0, 0, 0, 0, 1>> >>

\* C9 witness: the scenario's call has been made and answered with the
\* canned response {moreData: false, capability: 6, [{0x100, 7}]}.
GetCapabilityAnswered ==
    /\ GetCapabilityScenario
    /\ result.st = "Ok"
    /\ result.val = [capabilities |-> [variant |-> "TaggedProperties",
                                       items |-> << <<256, 7>> >>],
                     more_data |-> FALSE]

\* The stream delivered a frame with a whole header whose responseCode is
\* not zero.
NonZeroResponseCode ==
    /\ call.op # ""
    /\ sent # <<>>
    /\ response.kind = "frame"
    /\ Len(response.frame) >= 10
    /\ from_be_bytes(SubSeq(response.frame, 7, 10)) # 0

\* C10: when the response header carries a non-zero responseCode,
\* send_command returns an error and run_command returns that failure without
\* ever decoding the response body, whatever the body bytes are.
ResponseCodeFailure ==
    NonZeroResponseCode =>
        /\ result.st = "Err"
        /\ result.err = "Command failed"
        /\ body_decodes = 0

\* C10 witness: a response with code 0x922 and a well-formed capabilities
\* body has been received by get_capabilities.
RetryCodeReceived ==
    /\ NonZeroResponseCode
    /\ call.op = "get_capabilities"
    /\ from_be_bytes(SubSeq(response.frame, 7, 10)) = 2338
    /\ SubSeq(response.frame, 11, Len(response.frame)) = CannedCapabilities

\* A method has been called and its command encoded, so that run_command
\* went on to the transport.
CommandEncoded == call.op # "" /\ ~PcrIndexOutOfRange

\* The stream failed while the transport was reading or writing.
TransportFailure == CommandEncoded /\ response.kind = "io_error"

\* The response was accepted by the transport and its body does not decode
\* as Empty: startup got a body that is not empty.
BodyDecodeError ==
    /\ call.op = "startup"
    /\ response.kind = "frame"
    /\ Len(response.frame) > 10
    /\ from_be_bytes(SubSeq(response.frame, 7, 10)) = 0

\* C11: every run_command call invokes Transport.send_command exactly once,
\* whatever the outcome: after a transport failure, a non-zero response code
\* or a body decode error the command is not sent again and the error is
\* returned to the caller; a successful call also sends exactly one command.
\* What was handed to the transport changes only when a call is made or its
\* result is taken.
ExactlyOneSend ==
    /\ [](/\ CommandEncoded => Len(sent) = 1
          /\ result.st \in {"Ok", "Err"} /\ CommandEncoded => Len(sent) = 1
          /\ TransportFailure => (result.st = "Err" /\ result.err = "io")
          /\ NonZeroResponseCode => result.st = "Err"
          /\ BodyDecodeError => (result.st = "Err" /\ result.err = "InvalidFormat"))
    /\ [][sent' # sent => (sent = <<>> \/ sent' = <<>>)]_vars

\* C11 witness: startup was answered with a success header and a body of
\* two bytes; Empty did not decode and the one command sent stayed the only.
StartupBodyRejected ==
    /\ BodyDecodeError
    /\ body_decodes = 1
    /\ result.st = "Err"
    /\ Len(sent) = 1

(***************************************************************************)
(* TcpTransport (tss-client/src/tcp_transport.rs), one I/O call per step.   *)
(* A connection is [state, io, torn, ..]: io lists the I/O calls that       *)
(* completed on it, [op, bytes], bytes being what the call wrote or read;   *)
(* torn is what a write_all that failed had written before it failed.       *)
(* tcp_pc is [fn, at]: the function running and the statement it is about   *)
(* to run.                                                                  *)
(***************************************************************************)
Io(op, bytes) == [op |-> op, bytes |-> bytes]

\* Mutant of reset_platform_script: Power On is sent before Power Off.
reset_platform_script_on_first ==
    << Io("write_all", <<0, 0, 0, 1>>),
       Io("flush", <<>>),
       Io("read_exact", <<0, 0, 0, 0>>),
       Io("write_all", <<0, 0, 0, 2>>),
       Io("flush", <<>>),
       Io("read_exact", <<0, 0, 0, 0>>),
       Io("write_all", <<0, 0, 0, 11>>),
       Io("flush", <<>>),
       Io("read_exact", <<0, 0, 0, 0>>) >>

\* The statements of reset_platform between the opening and the drop of
\* platform_stream; a read_exact is given with the buffer it fills.
reset_platform_script ==
    << Io("write_all", <<0, 0, 0, 2>>),      \* Power Off
       Io("flush", <<>>),
       Io("read_exact", <<0, 0, 0, 0>>),
       Io("write_all", <<0, 0, 0, 1>>),      \* Power On
       Io("flush", <<>>),
       Io("read_exact", <<0, 0, 0, 0>>),
       Io("write_all", <<0, 0, 0, 11>>),     \* NV On
       Io("flush", <<>>),
       Io("read_exact", <<0, 0, 0, 0>>) >>

\* Mutant of send_command_script: the length written is that of the body
\* of the command, without its 10-byte header.
send_command_script_short_len(cmd_bytes) ==
    << Io("write_all", <<0, 0, 0, 8>>),
       Io("write_all", <<0>>),
       Io("write_all", to_be_bytes(saturating_sub(Len(cmd_bytes), 10), 4)),
       Io("write_all", cmd_bytes),
       Io("flush", <<>>) >>

\* The statements of send_command before its receive loop.
send_command_script(cmd_bytes) ==
    << Io("write_all", <<0, 0, 0, 8>>),      \* TPM_SEND_COMMAND
       Io("write_all", <<0>>),               \* Locality 0
       Io("write_all", to_be_bytes(Len(cmd_bytes), 4)),
       Io("write_all", cmd_bytes),
       Io("flush", <<>>) >>

\* Mutant of loop_exit: the loop is left after the first length word.
loop_exit_at_once(len) == TRUE

\* if response_len != 0 { break; }
loop_exit(len) == len # 0

\* An I/O call that completed on connection c.
Completed(c, op, bytes) == [c EXCEPT !.io = Append(@, Io(op, bytes))]

\* A write_all on c that failed after writing the first n bytes.
Torn(c, bytes, n) == [c EXCEPT !.torn = SubSeq(bytes, 1, n)]

\* A connection that goes out of scope is closed.
Dropped(c) == [c EXCEPT !.state = IF @ = "open" THEN "closed" ELSE @]

Goto(fn, at) == tcp_pc' = [fn |-> fn, at |-> at]

IoError == [st |-> "Err", err |-> "io", val |-> <<>>]

(***************************************************************************)
(* SpecTcp: TcpTransport::default() and then send_command calls on the      *)
(* transport it made.  The environment decides whether a connect, write or  *)
(* flush succeeds, which acknowledgment the platform sends, and the bytes    *)
(* the simulator delivers during a send_command call before it closes the   *)
(* connection: zero length words, a length word and a response, whole or    *)
(* cut short, possibly followed by more.                                    *)
(***************************************************************************)
MaxZeroWords == 2   \* most zero length words ahead of a response

\* The acknowledgment of the platform: a return code of zero.
AckSample == {<<0, 0, 0, 0>>}

TcpCommands ==
    { command_input(STARTUP, generate_serialize_impl(StartupCommand, <<startup_type_CLEAR>>)),
      command_input(GET_CAPABILITY,
                    generate_serialize_impl(GetCapabilityCommand,
                                            <<TPM_PROPERTIES, FAMILY_INDICATOR, 1>>)),
      <<1, 2, 3>> }

TcpFrames ==
    { to_be_bytes(NO_SESSIONS, 2) \o to_be_bytes(10, 4) \o to_be_bytes(0, 4),
      to_be_bytes(NO_SESSIONS, 2) \o to_be_bytes(12, 4) \o to_be_bytes(2338, 4)
          \o <<170, 187>>,
      to_be_bytes(NO_SESSIONS, 2) \o to_be_bytes(27, 4) \o to_be_bytes(0, 4)
          \o CannedCapabilities,
      <<128, 1, 0, 0>> }

RECURSIVE ZeroWords(_)
\* k zero length words.
ZeroWords(k) == IF k = 0 THEN <<>> ELSE <<0, 0, 0, 0>> \o ZeroWords(k - 1)

\* A length word of 2 MiB with ten bytes behind it.
HugeLengthStream == <<0, 32, 0, 0>> \o to_be_bytes(NO_SESSIONS, 2) \o ZeroWords(2)

TcpStreamsWhole ==
    {ZeroWords(k) \o to_be_bytes(Len(f), 4) \o f \o more :
         k \in 0..MaxZeroWords, f \in TcpFrames, more \in {<<>>, <<0, 0, 0, 0, 9>>}}
        \cup {HugeLengthStream}

TcpStreams == Prefixes(TcpStreamsWhole)

InitTcp ==
    /\ ReaderIdle
    /\ CodecIdle
    /\ PcrIdle
    /\ ClientIdle
    /\ heap_avail \in {HeapSmall, HeapLarge}
    /\ target = ""
    /\ wire = <<>>
    /\ outcome = Ok(<<>>, new(<<>>))
    /\ tcp_pc = [fn |-> "reset_platform", at |-> 0]
    /\ platform_stream = [state |-> "unopened", io |-> <<>>, torn |-> <<>>]
    /\ stream = [state |-> "unopened", io |-> <<>>, torn |-> <<>>,
                 incoming |-> <<>>, consumed |-> 0]
    /\ command = <<>>
    /\ response_len = 0
    /\ tpm_response = <<>>
    /\ tcp_ret = NoResult

NotTcp == UNCHANGED <<readerVars, codecVars, decodeVars, pcrVars, clientVars>>

\* Self::connect("localhost:2321").unwrap() when connect returns an error:
\* default() panics; ps is the control connection as the failing call left it.
ConnectFails(ps) ==
    /\ Goto("panicked", 0)
    /\ tcp_ret' = [st |-> "Panic", err |-> "io", val |-> <<>>]
    /\ platform_stream' = Dropped(ps)
    /\ UNCHANGED <<stream, command, response_len, tpm_response>>
    /\ NotTcp

\* reset_platform goes on to its next statement with the control connection ps.
PlatformStep(ps) ==
    /\ Goto("reset_platform", tcp_pc.at + 1)
    /\ platform_stream' = ps
    /\ UNCHANGED <<stream, command, response_len, tpm_response, tcp_ret>>
    /\ NotTcp

PlatformAt(op) ==
    /\ tcp_pc.fn = "reset_platform"
    /\ tcp_pc.at \in 1..Len(reset_platform_script)
    /\ reset_platform_script[tcp_pc.at].op = op

\* let mut platform_stream = TcpStream::connect("localhost:2322")?;
PlatformConnect ==
    /\ tcp_pc = [fn |-> "reset_platform", at |-> 0]
    /\ \E ok \in BOOLEAN :
           IF ok THEN PlatformStep([platform_stream EXCEPT !.state = "open"])
           ELSE ConnectFails(platform_stream)

\* platform_stream.write_all(&[..])?;
PlatformWriteAll ==
    /\ PlatformAt("write_all")
    /\ LET bytes == reset_platform_script[tcp_pc.at].bytes
       IN  \E n \in 0..Len(bytes) :
               IF n = Len(bytes)
               THEN PlatformStep(Completed(platform_stream, "write_all", bytes))
               ELSE ConnectFails(Torn(platform_stream, bytes, n))

\* platform_stream.flush()?;
PlatformFlush ==
    /\ PlatformAt("flush")
    /\ \E ok \in BOOLEAN :
           IF ok THEN PlatformStep(Completed(platform_stream, "flush", <<>>))
           ELSE ConnectFails(platform_stream)

\* platform_stream.read_exact(&mut response)?;  The platform sends its four
\* bytes, or closes the connection before it has.
PlatformReadExact ==
    /\ PlatformAt("read_exact")
    /\ \/ \E ack \in AckSample :
              PlatformStep(Completed(platform_stream, "read_exact", ack))
       \/ ConnectFails(platform_stream)

\* drop(platform_stream); Ok(())
PlatformDrop ==
    /\ tcp_pc = [fn |-> "reset_platform", at |-> Len(reset_platform_script) + 1]
    /\ Goto("connect", 0)
    /\ platform_stream' = Dropped(platform_stream)
    /\ UNCHANGED <<stream, command, response_len, tpm_response, tcp_ret>>
    /\ NotTcp

\* let stream = TcpStream::connect(addr)?; Ok(Self { stream })
Connect ==
    /\ tcp_pc = [fn |-> "connect", at |-> 0]
    /\ \E ok \in BOOLEAN :
           IF ok
           THEN /\ Goto("idle", 0)
                /\ stream' = [stream EXCEPT !.state = "open"]
                /\ UNCHANGED <<platform_stream, command, response_len, tpm_response, tcp_ret>>
                /\ NotTcp
           ELSE ConnectFails(platform_stream)

\* send_command ends with res, its stream left as s.
Return(res, s) ==
    /\ Goto(IF res.st = "Abort" THEN "aborted" ELSE "returned", 0)
    /\ tcp_ret' = res
    /\ stream' = s
    /\ UNCHANGED <<platform_stream, command, response_len, tpm_response>>
    /\ NotTcp

\* send_command goes on to statement at with its stream as s.
StreamStep(at, s) ==
    /\ Goto("send_command", at)
    /\ stream' = s
    /\ UNCHANGED <<platform_stream, command, tcp_ret>>
    /\ NotTcp

StreamAt(op) ==
    /\ tcp_pc.fn = "send_command"
    /\ tcp_pc.at \in 1..Len(send_command_script(command))
    /\ send_command_script(command)[tcp_pc.at].op = op

\* A caller calls send_command(command) on the transport; the simulator will
\* deliver incoming during the call.
SendCommand ==
    /\ tcp_pc.fn = "idle"
    /\ \E c \in TcpCommands, incoming \in TcpStreams :
           /\ command' = c
           /\ stream' = [state |-> "open", io |-> <<>>, torn |-> <<>>,
                         incoming |-> incoming, consumed |-> 0]
    /\ Goto("send_command", 1)
    /\ UNCHANGED <<platform_stream, response_len, tpm_response, tcp_ret>>
    /\ NotTcp

\* self.stream.write_all(..)?;
StreamWriteAll ==
    /\ StreamAt("write_all")
    /\ UNCHANGED <<response_len, tpm_response>>
    /\ LET bytes == send_command_script(command)[tcp_pc.at].bytes
       IN  \E n \in 0..Len(bytes) :
               IF n = Len(bytes)
               THEN StreamStep(tcp_pc.at + 1, Completed(stream, "write_all", bytes))
               ELSE Return(IoError, Torn(stream, bytes, n))

\* self.stream.flush()?;
StreamFlush ==
    /\ StreamAt("flush")
    /\ UNCHANGED <<response_len, tpm_response>>
    /\ \E ok \in BOOLEAN :
           IF ok THEN StreamStep(tcp_pc.at + 1, Completed(stream, "flush", <<>>))
           ELSE Return(IoError, stream)

\* The bytes the simulator has still to deliver.
Unread(s) == SubSeq(s.incoming, s.consumed + 1, Len(s.incoming))

\* read_exact took the next n bytes of s.
Took(s, n) ==
    [Completed(s, "read_exact", SubSeq(Unread(s), 1, n)) EXCEPT !.consumed = @ + n]

\* read_exact met the end of the stream: what was left is gone.
Drained(s) == [s EXCEPT !.consumed = Len(s.incoming)]

\* loop { self.stream.read_exact(&mut len_bytes)?;
\*        response_len = u32::from_be_bytes(len_bytes);
\*        if response_len != 0 { break; } }
ReadLength ==
    /\ tcp_pc = [fn |-> "send_command", at |-> Len(send_command_script(command)) + 1]
    /\ IF Len(Unread(stream)) < 4
       THEN /\ Return(IoError, Drained(stream))
            /\ UNCHANGED <<response_len, tpm_response>>
       ELSE LET len == from_be_bytes(SubSeq(Unread(stream), 1, 4))
            IN  /\ response_len' = len
                /\ UNCHANGED tpm_response
                /\ StreamStep(IF loop_exit(len) THEN tcp_pc.at + 1 ELSE tcp_pc.at,
                              Took(stream, 4))

\* let mut tpm_response = vec![0u8; response_len as usize];
\* self.stream.read_exact(&mut tpm_response)?;
ReadResponse ==
    /\ tcp_pc = [fn |-> "send_command", at |-> Len(send_command_script(command)) + 2]
    /\ IF response_len > heap_avail
       THEN /\ Return([st |-> "Abort", err |-> "alloc", val |-> <<>>], stream)
            /\ UNCHANGED <<response_len, tpm_response>>
       ELSE IF Len(Unread(stream)) < response_len
       THEN /\ Return(IoError, Drained(stream))
            /\ UNCHANGED <<response_len, tpm_response>>
       ELSE /\ tpm_response' = SubSeq(Unread(stream), 1, response_len)
            /\ UNCHANGED response_len
            /\ StreamStep(tcp_pc.at + 1, Took(stream, response_len))

\* let header = ResponseHeader::from_tss_bytes(&tpm_response)?; .. Ok((header, body))
ParseResponse ==
    /\ tcp_pc = [fn |-> "send_command", at |-> Len(send_command_script(command)) + 3]
    /\ Return(parse_response(tpm_response), stream)
    /\ UNCHANGED <<response_len, tpm_response>>

\* The caller takes what send_command returned; its locals are gone and the
\* transport, which holds only its stream, is ready for the next call.
TakeReturn ==
    /\ tcp_pc.fn = "returned"
    /\ Goto("idle", 0)
    /\ stream' = [state |-> "open", io |-> <<>>, torn |-> <<>>,
                  incoming |-> <<>>, consumed |-> 0]
    /\ command' = <<>>
    /\ response_len' = 0
    /\ tpm_response' = <<>>
    /\ tcp_ret' = NoResult
    /\ UNCHANGED platform_stream
    /\ NotTcp

NextTcp ==
    \/ PlatformConnect
    \/ PlatformWriteAll
    \/ PlatformFlush
    \/ PlatformReadExact
    \/ PlatformDrop
    \/ Connect
    \/ SendCommand
    \/ StreamWriteAll
    \/ StreamFlush
    \/ ReadLength
    \/ ReadResponse
    \/ ParseResponse
    \/ TakeReturn

SpecTcp == InitTcp /\ [][NextTcp]_vars

\* s begins with t.
IsPrefix(t, s) == Len(t) <= Len(s) /\ SubSeq(s, 1, Len(t)) = t

\* The byte strings of the calls of kind op in the log io, in order.
BytesOf(io, op) ==
    LET calls == SelectSeq(io, LAMBDA e : e.op = op)
    IN  [i \in 1..Len(calls) |-> calls[i].bytes]

\* How many calls of kind op are among the first n of the log io.
CountOf(io, op, n) == Cardinality({i \in 1..n : io[i].op = op})

RECURSIVE LeadingZeroWords(_)
\* How many zero length words the stream s begins with.
LeadingZeroWords(s) ==
    IF Len(s) >= 4 /\ SubSeq(s, 1, 4) = <<0, 0, 0, 0>>
    THEN 1 + LeadingZeroWords(SubSeq(s, 5, Len(s)))
    ELSE 0

\* The length word behind the k zero length words of s.
LengthBehind(s, k) == from_be_bytes(SubSeq(s, 4 * k + 1, 4 * k + 4))

\* s is k >= 0 zero length words, a non-zero length L and L bytes (and
\* whatever the simulator sends after them).
FramedStream(s) ==
    LET k == LeadingZeroWords(s)
    IN  /\ Len(s) >= 4 * (k + 1)
        /\ Len(s) >= 4 * (k + 1) + LengthBehind(s, k)

\* send_command has written and flushed the command and is, or was,
\* receiving.
Receiving ==
    /\ tcp_pc.fn \in {"send_command", "returned", "aborted"}
    /\ CountOf(stream.io, "flush", Len(stream.io)) = 1

SendCommandReturned == tcp_pc.fn = "returned"

\* C12: after sending a command, send_command reads 4-byte big-endian length
\* words one after another, discarding every zero length word, and stops at
\* the first non-zero length L; it then reads exactly L further bytes as the
\* TPM response.  For a stream made of k >= 0 zero length words, a non-zero
\* length L and L bytes it consumes exactly 4*(k+1)+L bytes and returns, the
\* reads being the k zero words, the length word and the L bytes; it does not
\* return while only zero length words have been received, unless the stream
\* ended and the read failed.
ReceiveLoop ==
    LET s == stream.incoming
        k == LeadingZeroWords(s)
        L == LengthBehind(s, k)
    IN  /\ (Receiving /\ SendCommandReturned /\ FramedStream(s)) =>
               /\ stream.consumed = 4 * (k + 1) + L
               /\ response_len = L
               /\ tpm_response = SubSeq(s, 4 * k + 5, 4 * k + 4 + L)
               /\ BytesOf(stream.io, "read_exact") =
                      [i \in 1..(k + 2) |->
                           IF i <= k THEN <<0, 0, 0, 0>>
                           ELSE IF i = k + 1 THEN SubSeq(s, 4 * k + 1, 4 * k + 4)
                           ELSE SubSeq(s, 4 * k + 5, 4 * k + 4 + L)]
        /\ (Receiving /\ SendCommandReturned /\ response_len = 0) =>
               /\ tcp_ret = IoError
               /\ ~FramedStream(s)
        /\ (Receiving /\ FramedStream(s) /\ stream.consumed < 4 * (k + 1)) =>
               /\ tcp_pc.fn = "send_command"
               /\ tpm_response = <<>>

\* C12 witness: two zero length words, the length 27 and the canned
\* capabilities response were delivered with five more bytes behind them;
\* send_command returned the response and left the five bytes unread.
KeepAlivesSkipped ==
    /\ SendCommandReturned
    /\ tcp_ret.st = "Ok"
    /\ LeadingZeroWords(stream.incoming) = 2
    /\ Len(stream.incoming) = 44
    /\ stream.consumed = 39
    /\ tcp_ret.val.body = CannedCapabilities

RECURSIVE Concat(_)
\* The byte strings of seqs one after another.
Concat(seqs) == IF seqs = <<>> THEN <<>> ELSE Head(seqs) \o Concat(Tail(seqs))

\* What the call has written to connection c so far.
Written(c) == Concat(BytesOf(c.io, "write_all")) \o c.torn

\* The outer frame of a command: 00 00 00 08, 00, the length, the command.
OuterFrame(cmd_bytes) ==
    <<0, 0, 0, 8, 0>>
        \o <<Len(cmd_bytes) \div 16777216, (Len(cmd_bytes) \div 65536) % 256,
             (Len(cmd_bytes) \div 256) % 256, Len(cmd_bytes) % 256>>
        \o cmd_bytes

\* The command is one run_command builds: a CommandHeader in front.
FromRunCommand(cmd_bytes) ==
    /\ Len(cmd_bytes) >= 10
    /\ SubSeq(cmd_bytes, 1, 2) = <<128, 1>>
    /\ from_be_bytes(SubSeq(cmd_bytes, 3, 6)) = Len(cmd_bytes)

\* C17: for every send_command(command) call, the bytes written to the
\* stream are exactly one outer frame: command type 00 00 00 08, locality 00,
\* a 4-byte big-endian length equal to len(command) (hence equal to the
\* inner CommandHeader.length field when called from run_command), then the
\* command bytes; all of these writes complete before the first read of the
\* call, and nothing else is written during the call: what is written is
\* always a beginning of that frame, and the whole of it in every call that
\* went on to read.
OuterFraming ==
    tcp_pc.fn \in {"send_command", "returned", "aborted"} =>
        LET io == stream.io
            written == Written(stream)
            reading == CountOf(io, "read_exact", Len(io)) > 0
        IN  /\ IsPrefix(written, OuterFrame(command))
            /\ (reading \/ (SendCommandReturned /\ tcp_ret # IoError)) =>
                   /\ written = OuterFrame(command)
                   /\ stream.torn = <<>>
                   /\ FromRunCommand(command) =>
                          SubSeq(written, 6, 9) = SubSeq(command, 3, 6)
            /\ \A i \in 1..Len(io) :
                   io[i].op = "read_exact" =>
                       \A j \in (i + 1)..Len(io) : io[j].op = "read_exact"

\* C17 witness: send_command of the 22-byte GetCapability command returned
\* after it wrote the 31 bytes of its outer frame.
GetCapabilityFrameWritten ==
    /\ SendCommandReturned
    /\ tcp_ret.st = "Ok"
    /\ Written(stream) =
           <<0, 0, 0, 8, 0, 0, 0, 0, 22,
             128, 1, 0, 0, 0, 22, 0, 0, 1, 122,
             0, 0, 0, 6, 0, 0, 1, 0, 0, 0, 0, 1>>

\* The opcodes written whole to the control connection, in order.
OpcodesSent == BytesOf(platform_stream.io, "write_all")

\* The acknowledgments read from the control connection.
AcksRead == BytesOf(platform_stream.io, "read_exact")

\* C13: constructing a TcpTransport sends on the control connection the
\* opcodes Power-Off (00 00 00 02), Power-On (00 00 00 01), NV-On
\* (00 00 00 0B) in exactly that order, each opcode being sent only after the
\* 4-byte acknowledgment of the previous one has been read; the control
\* connection is closed before the command connection is opened, and if any
\* step of the handshake fails the command connection is never opened.
PlatformResetOrdering ==
    /\ [](/\ IsPrefix(OpcodesSent, << <<0, 0, 0, 2>>, <<0, 0, 0, 1>>, <<0, 0, 0, 11>> >>)
          /\ \A i \in 1..Len(platform_stream.io) :
                 platform_stream.io[i].op = "write_all" =>
                     CountOf(platform_stream.io, "read_exact", i - 1)
                         = CountOf(platform_stream.io, "write_all", i - 1)
          /\ \A i \in 1..Len(AcksRead) : Len(AcksRead[i]) = 4
          /\ stream.state = "open" =>
                 /\ platform_stream.state = "closed"
                 /\ Len(OpcodesSent) = 3
                 /\ Len(AcksRead) = 3
          /\ tcp_pc.fn = "panicked" => stream.state = "unopened")
    /\ [][/\ stream'.state # stream.state =>
                 (stream'.state = "open" /\ platform_stream.state = "closed")
          /\ tcp_pc.fn = "panicked" => stream'.state = "unopened"]_vars

\* C13 witness: the transport is constructed: the three opcodes went out, the
\* three acknowledgments came in, the control connection is closed and the
\* command connection is open.
TransportConstructed ==
    /\ tcp_pc.fn = "idle"
    /\ Len(OpcodesSent) = 3
    /\ Len(AcksRead) = 3
    /\ platform_stream.state = "closed"
    /\ stream.state = "open"

\* The stream delivered a frame to a call that reached the transport.
FrameReceived == sent # <<>> /\ response.kind = "frame"

\* The size field of the response header of a frame of at least 10 bytes.
DeclaredSize(frame) == from_be_bytes(SubSeq(frame, 3, 6))

\* The frame is shorter than what it declares: it has no whole header, or
\* its header reports success and a size beyond the bytes that came, or it
\* is the capabilities response cut in the middle of its one property.
ShortFrame ==
    /\ FrameReceived
    /\ \/ Len(response.frame) < 10
       \/ /\ Len(response.frame) >= 10
          /\ from_be_bytes(SubSeq(response.frame, 7, 10)) = 0
          /\ \/ Len(response.frame) < DeclaredSize(response.frame)
             \/ /\ call.op = "get_capabilities"
                /\ SubSeq(response.frame, 11, Len(response.frame))
                       = SubSeq(CannedCapabilities, 1, 12)

\* C14: a response frame that is shorter than what it declares (fewer than
\* 10 bytes, so no complete header; or a body with fewer bytes than the
\* header's size field or the typed body decoder requires) makes the round
\* trip fail with InsufficientData; it never crashes and never yields a
\* decoded result.
ShortFrameFails ==
    ShortFrame => (result.st = "Err" /\ result.err = "InsufficientData")

\* What the code does keep: a frame of fewer than 10 bytes fails with
\* InsufficientData in the header decoder, before the first 10 bytes are
\* sliced off and without a body decode.
HeaderlessFrameFails ==
    (FrameReceived /\ Len(response.frame) < 10) =>
        (result.st = "Err" /\ result.err = "InsufficientData" /\ body_decodes = 0)

\* read_pcr was answered with a frame whose header reports success.
ReadPcrAnswered ==
    /\ call.op = "read_pcr"
    /\ FrameReceived
    /\ Len(response.frame) >= 10
    /\ from_be_bytes(SubSeq(response.frame, 7, 10)) = 0

\* C15: run_command with response type RawResponse (as used by read_pcr)
\* succeeds for every response body and returns RawResponse.bytes equal to
\* the whole response body: all bytes after the 10-byte response header,
\* uninterpreted and unmodified.
RawResponseIsWholeBody ==
    ReadPcrAnswered =>
        /\ result.st = "Ok"
        /\ result.val.bytes = SubSeq(response.frame, 11, Len(response.frame))

\* What the code does instead: the body is decoded as a byte sequence with a
\* u32 count in front, so a returned RawResponse holds the bytes behind the
\* count, as many as the count says, and never the four bytes of the count.
RawResponseIsCountedBytes ==
    (ReadPcrAnswered /\ result.st = "Ok") =>
        LET body == SubSeq(response.frame, 11, Len(response.frame))
        IN  /\ Len(body) >= 4
            /\ Len(result.val.bytes) = from_be_bytes(SubSeq(body, 1, 4))
            /\ result.val.bytes = SubSeq(body, 5, 4 + Len(result.val.bytes))

RECURSIVE FieldSize(_)
RECURSIVE RecordSize(_)

\* The number of bytes a field of type ty takes on the wire.
FieldSize(ty) ==
    CASE ty[1] \in {"u8", "i8"} -> 1
      [] ty[1] \in {"u16", "i16"} -> 2
      [] ty[1] \in {"u32", "i32"} -> 4
      [] ty[1] \in {"u64", "i64"} -> 8
      [] ty[1] = "[u8;" -> ty[2]
      [] ty[1] = "[u16;" -> 2 * ty[2]
      [] ty[1] = "[u32;" -> 4 * ty[2]
      [] OTHER -> RecordSize(ty[2])

\* The number of bytes a record with these fields takes on the wire.
RecordSize(fields) ==
    IF fields = <<>> THEN 0 ELSE FieldSize(Head(fields)) + RecordSize(Tail(fields))

\* The offset of field i: the sizes of the fields declared before it.
FieldOffset(fields, i) == RecordSize(SubSeq(fields, 1, i - 1))

RECURSIVE ShiftRight(_, _)
\* v >> (8 * n)
ShiftRight(v, n) == IF n = 0 THEN v ELSE ShiftRight(v \div 256, n - 1)

\* The big-endian representation of v in w bytes: byte j (from 1) holds bits
\* 8*(w-j) .. 8*(w-j)+7 of v.
BigEndian(v, w) == [j \in 1..w |-> ShiftRight(v, w - j) % 256]

\* What the layout says field i of type ty holding v contributes.
FieldBytes(ty, v) ==
    IF ty[1] = "[u8;" THEN v ELSE BigEndian(v, FieldSize(ty))

\* The fields the layout law speaks of.
LaidOutTypes == {"u16", "u32", "u64", "[u8;"}

\* C16: the encoding of a derived record is the concatenation, in field
\* declaration order and with no padding or separators, of each field's
\* encoding, where a u16/u32/u64 field contributes exactly 2/4/8 bytes equal
\* to its big-endian representation and a [u8;N] field contributes its N
\* bytes unchanged; decoding reads the fields from the same offsets in the
\* same order; {tag:u16, length:u32, command_code:u32, bytes_requested:u16}
\* always encodes to 12 bytes at offsets 0, 2, 6, 10.
StructLayout ==
    /\ codec_pc \in {"encoded", "decoded"} =>
           /\ Len(buffer) = RecordSize(schema)
           /\ \A i \in 1..Len(schema) :
                  schema[i][1] \in LaidOutTypes =>
                      SubSeq(buffer, FieldOffset(schema, i) + 1,
                             FieldOffset(schema, i) + FieldSize(schema[i]))
                          = FieldBytes(schema[i], original[i])
           /\ schema = TpmGetRandomCommand =>
                  /\ Len(buffer) = 12
                  /\ SubSeq(buffer, 1, 2) = BigEndian(original[1], 2)
                  /\ SubSeq(buffer, 3, 6) = BigEndian(original[2], 4)
                  /\ SubSeq(buffer, 7, 10) = BigEndian(original[3], 4)
                  /\ SubSeq(buffer, 11, 12) = BigEndian(original[4], 2)
    /\ codec_pc = "decoded" =>
           /\ decoded.st = "Ok"
           /\ \A i \in 1..Len(schema) :
                  schema[i][1] \in LaidOutTypes =>
                      FieldBytes(schema[i], decoded.val[i])
                          = SubSeq(buffer, FieldOffset(schema, i) + 1,
                                   FieldOffset(schema, i) + FieldSize(schema[i]))

\* C16 witness: the command of test_serialize_command, {0x8001, 12, 0x17B,
\* 32}, was encoded to its 12 bytes and decoded.
GetRandomCommandLaidOut ==
    /\ codec_pc = "decoded"
    /\ schema = TpmGetRandomCommand
    /\ original = <<32769, 12, 379, 32>>
    /\ buffer = <<128, 1, 0, 0, 0, 12, 0, 0, 1, 123, 0, 32>>

=============================================================================
